---- MODULE Spec2Model ----
(***************************************************************************)
(* Model of the motion analysis pipeline of                                *)
(* app/services/motion_analyzer.py (class MotionAnalyzer).                 *)
(*                                                                         *)
(* Text (motion text, case names, statute strings, argument summaries) is  *)
(* a sequence of one-character strings, so that str.lower(), the `in'      *)
(* substring test, str.strip() and the regular expressions of the source   *)
(* are computed character by character.  A parsed JSON value is a tagged   *)
(* record: [k |-> "null"], [k |-> "num", n |-> 3], [k |-> "str", s |-> _], *)
(* [k |-> "list", l |-> <<...>>], [k |-> "obj", p |-> <<key, value>>       *)
(* pairs in insertion order].                                              *)
(***************************************************************************)
EXTENDS Integers, Sequences, FiniteSets, TLC

VARIABLES
    initialized,          \* self._initialized
    client,               \* self.client: "none" or "handle"
    pc,                   \* position of the analyze_motion coroutine
    motion_text,          \* argument motion_text
    extracted_citations,  \* local extracted_citations
    completion,           \* what the completion service answered
    result_data,          \* local result_data (parsed, then normalized)
    motion_result,        \* local motion_result (validated, typed)
    processed_result,     \* local processed_result / the returned value
    error,                \* message of the exception analyze_motion raised
    api_calls,            \* number of chat.completions.create calls issued
    stages,               \* pipeline steps executed so far, in order
    warnings,             \* case names logged as removed by the post-processor
    creations,            \* AsyncOpenAI objects built since the flag was last clear
    peer_pc               \* position of a second, concurrent analyze_motion

vars == <<initialized, client, pc, motion_text, extracted_citations,
          completion, result_data, motion_result, processed_result,
          error, api_calls, stages, warnings, creations, peer_pc>>

(***************************************************************************)
(* Characters and strings                                                  *)
(***************************************************************************)
UpperChars == <<"A","B","C","D","E","F","G","H","I","J","K","L","M",
                "N","O","P","Q","R","S","T","U","V","W","X","Y","Z">>
LowerChars == <<"a","b","c","d","e","f","g","h","i","j","k","l","m",
                "n","o","p","q","r","s","t","u","v","w","x","y","z">>
DigitChars == <<"0","1","2","3","4","5","6","7","8","9">>

UpperSet == {UpperChars[i] : i \in 1..26}
LowerSet == {LowerChars[i] : i \in 1..26}
DigitSet == {DigitChars[i] : i \in 1..10}

\* str.lower() on one character
LowerCh(c) ==
    IF c \in UpperSet
    THEN LowerChars[CHOOSE i \in 1..26 : UpperChars[i] = c]
    ELSE c

\* str.lower()
Lower(s) == [i \in 1..Len(s) |-> LowerCh(s[i])]

\* regular expression classes \d, [A-Za-z], \w, \s
IsDigit(c) == c \in DigitSet
IsLetter(c) == c \in UpperSet \cup LowerSet
IsWord(c) == IsLetter(c) \/ IsDigit(c) \/ c = "_"
IsSpace(c) == c \in {" ", "\n", "\t"}

\* the character at position p, "" outside the string
At(t, p) == IF p >= 1 /\ p <= Len(t) THEN t[p] ELSE ""

\* Python's `needle in hay' on strings
Contains(hay, needle) ==
    \E i \in 0..(Len(hay) - Len(needle)) :
        \A j \in 1..Len(needle) : hay[i + j] = needle[j]

\* str.strip()
Strip(s) ==
    LET keep == {i \in 1..Len(s) : ~IsSpace(s[i])}
    IN  IF keep = {} THEN <<>>
        ELSE LET lo == CHOOSE i \in keep : \A j \in keep : i <= j
                 hi == CHOOSE i \in keep : \A j \in keep : j <= i
             IN  SubSeq(s, lo, hi)

\* int() of a string of decimal digits
DigitVal(c) == (CHOOSE i \in 1..10 : DigitChars[i] = c) - 1
RECURSIVE ParseInt(_)
ParseInt(s) ==
    IF s = <<>> THEN 0
    ELSE 10 * ParseInt(SubSeq(s, 1, Len(s) - 1)) + DigitVal(s[Len(s)])

SetMax(S) == CHOOSE x \in S : \A y \in S : y <= x
SetMin(S) == CHOOSE x \in S : \A y \in S : x <= y

(***************************************************************************)
(* Regular expression pieces shared by citation_patterns                   *)
(***************************************************************************)
\* \s* and \d* from p: the position after the longest run
SkipSpace(t, p) ==
    CHOOSE q \in p..(Len(t) + 1) :
        (\A i \in p..(q - 1) : IsSpace(t[i])) /\ ~IsSpace(At(t, q))
SkipDigits(t, p) ==
    CHOOSE q \in p..(Len(t) + 1) :
        (\A i \in p..(q - 1) : IsDigit(t[i])) /\ ~IsDigit(At(t, q))

\* (\w+(?:\s+\w+)*) from s: every position (exclusive) where the group can
\* end; the group starts and ends on a word character and holds nothing but
\* word characters and white space
NameEnds(t, s) ==
    IF ~IsWord(At(t, s)) THEN {}
    ELSE LET run == CHOOSE q \in s..(Len(t) + 1) :
                        (\A i \in s..(q - 1) : IsWord(t[i]) \/ IsSpace(t[i]))
                        /\ ~(IsWord(At(t, q)) \/ IsSpace(At(t, q)))
         IN  {e \in (s + 1)..run : IsWord(t[e - 1])}

\* \s*v\.\s* from e under re.IGNORECASE: the position after it, 0 if no match
AfterV(t, e) ==
    LET q == SkipSpace(t, e)
    IN  IF LowerCh(At(t, q)) = "v" /\ At(t, q + 1) = "."
        THEN SkipSpace(t, q + 2)
        ELSE 0

\* One item of a linear pattern: a character test, optional or required.
\* c is a literal (compared ignoring case), or "\\d" or "\\s".
Req(c) == [c |-> c, opt |-> FALSE]
Opt(c) == [c |-> c, opt |-> TRUE]
ItemMatches(item, ch) ==
    CASE item.c = "\\d" -> IsDigit(ch)
      [] item.c = "\\s" -> IsSpace(ch)
      [] OTHER -> ch # "" /\ LowerCh(ch) = LowerCh(item.c)

\* \s+(\d+) from p: what follows the reporter in both case patterns
PageFollows(t, p) == IsSpace(At(t, p)) /\ IsDigit(At(t, SkipSpace(t, p)))

\* Backtracking match of items[i..] from p, followed by \s+(\d+): the end
\* position of the first successful path (optional items are greedy), or 0.
RECURSIVE MatchItems(_, _, _, _)
MatchItems(t, p, items, i) ==
    IF i > Len(items) THEN (IF PageFollows(t, p) THEN p ELSE 0)
    ELSE LET taken == IF ItemMatches(items[i], At(t, p))
                      THEN MatchItems(t, p + 1, items, i + 1)
                      ELSE 0
         IN  IF taken # 0 THEN taken
             ELSE IF items[i].opt THEN MatchItems(t, p, items, i + 1)
             ELSE 0

\* (F\.\d?d|F\.\s?Supp\.?\s?\d?d?|U\.S\.)
FederalReporters ==
    << <<Req("F"), Req("."), Opt("\\d"), Req("d")>>,
       <<Req("F"), Req("."), Opt("\\s"), Req("S"), Req("u"), Req("p"),
         Req("p"), Opt("."), Opt("\\s"), Opt("\\d"), Opt("d")>>,
       <<Req("U"), Req("."), Req("S"), Req(".")>> >>

\* the federal reporter group from r: its end, 0 if no alternative matches
FederalReporterEnd(t, r) ==
    LET ends == [a \in 1..Len(FederalReporters) |->
                    MatchItems(t, r, FederalReporters[a], 1)]
        ok == {a \in 1..Len(FederalReporters) : ends[a] # 0}
    IN  IF ok = {} THEN 0 ELSE ends[SetMin(ok)]

\* ([A-Z][^,\d]*?) from r followed by \s+(\d+): the lazy group takes the
\* fewest characters; under re.IGNORECASE [A-Z] is any letter
StateReporterEnd(t, r) ==
    IF ~IsLetter(At(t, r)) THEN 0
    ELSE LET ends == {x \in (r + 1)..Len(t) :
                        /\ \A i \in (r + 1)..(x - 1) :
                               t[i] # "," /\ ~IsDigit(t[i])
                        /\ PageFollows(t, x)}
         IN  IF ends = {} THEN 0 ELSE SetMin(ends)

NoGroup == [s |-> 0, e |-> 0]
NoMatch == [ok |-> FALSE]

\* (?:\s*\(([^)]+)\s*(\d{4})\))? from z, where w is the position after \s*
\* and c the first ")" after w (0 if none): the court and year spans and
\* the end; the greedy court group gives back only the four year digits
CourtYearAt(t, z, w, c) ==
    IF At(t, w) = "(" /\ c >= w + 6
       /\ \A i \in (c - 4)..(c - 1) : IsDigit(t[i])
    THEN [court |-> [s |-> w + 1, e |-> c - 4],
          year |-> [s |-> c - 4, e |-> c], end |-> c + 1]
    ELSE [court |-> NoGroup, year |-> NoGroup, end |-> z]

FirstCloser(t, w) ==
    IF \E c \in (w + 1)..Len(t) : t[c] = ")"
    THEN SetMin({c \in (w + 1)..Len(t) : t[c] = ")"})
    ELSE 0

CourtYearFrom(t, z, w) == CourtYearAt(t, z, w, FirstCloser(t, w))
CourtYear(t, z) == CourtYearFrom(t, z, SkipSpace(t, z))

\* the reporter group of a case pattern from r; kind is "federal" (first
\* pattern) or "state" (second pattern)
ReporterEnd(t, r, kind) ==
    IF kind = "federal" THEN FederalReporterEnd(t, r)
    ELSE StateReporterEnd(t, r)

\* ,?\s*(\d+)\s+(reporter)\s+(\d+)(?:...)? from e2, the end of the second
\* party name, split at the positions it passes: v volume, d its end,
\* r reporter, x its end, y page, z its end
TailRecord(v, d, r, x, y, z, cy) ==
    [ok |-> TRUE, volume |-> [s |-> v, e |-> d],
     reporter |-> [s |-> r, e |-> x], page |-> [s |-> y, e |-> z],
     court |-> cy.court, year |-> cy.year, end |-> cy.end]
TailCourt(t, v, d, r, x, y, z) ==
    TailRecord(v, d, r, x, y, z, CourtYear(t, z))
TailPage(t, v, d, r, x, y) == TailCourt(t, v, d, r, x, y, SkipDigits(t, y))
TailReporterEnd(t, v, d, r, x) ==
    IF x # 0 THEN TailPage(t, v, d, r, x, SkipSpace(t, x)) ELSE NoMatch
TailReporter(t, kind, v, d, r) ==
    IF d > v /\ r > d THEN TailReporterEnd(t, v, d, r, ReporterEnd(t, r, kind))
    ELSE NoMatch
TailVolumeEnd(t, kind, v, d) == TailReporter(t, kind, v, d, SkipSpace(t, d))
TailVolume(t, kind, v) == TailVolumeEnd(t, kind, v, SkipDigits(t, v))
CaseTail(t, e2, kind) ==
    TailVolume(t, kind, SkipSpace(t, IF At(t, e2) = "," THEN e2 + 1 ELSE e2))

\* the ends of the second party name, starting at r, from which the rest of
\* the pattern matches (r = 0: \s*v\.\s* did not match)
SecondEnds(t, r, kind) ==
    IF r = 0 THEN {} ELSE {e2 \in NameEnds(t, r) : CaseTail(t, e2, kind).ok}

\* the ends of the first party name, starting at s, from which the rest of
\* the pattern matches
FirstEnds(t, s, kind) ==
    {e1 \in NameEnds(t, s) : SecondEnds(t, AfterV(t, e1), kind) # {}}

\* A case pattern tried at start s.  Both party-name groups are greedy: the
\* first takes the longest name for which the rest can match, then the
\* second does.
CaseMatchRecord(s, e1, r, e2, tail) ==
    [ok |-> TRUE, s |-> s, end |-> tail.end, ngroups |-> 7,
     g1 |-> [s |-> s, e |-> e1], g2 |-> [s |-> r, e |-> e2],
     g3 |-> tail.volume, g4 |-> tail.reporter, g5 |-> tail.page,
     g6 |-> tail.court, g7 |-> tail.year]
CaseMatchSecond(t, s, kind, e1, r, e2) ==
    CaseMatchRecord(s, e1, r, e2, CaseTail(t, e2, kind))
CaseMatchV(t, s, kind, e1, r) ==
    CaseMatchSecond(t, s, kind, e1, r, SetMax(SecondEnds(t, r, kind)))
CaseMatchFirst(t, s, kind, firsts) ==
    IF firsts = {} THEN NoMatch
    ELSE CaseMatchV(t, s, kind, SetMax(firsts), AfterV(t, SetMax(firsts)))
CaseMatchAt(t, s, kind) == CaseMatchFirst(t, s, kind, FirstEnds(t, s, kind))

(***************************************************************************)
(* The statutory pattern                                                   *)
(***************************************************************************)
\* a lower-case literal at p, compared ignoring case (re.IGNORECASE)
LitAt(t, p, lit) ==
    \A j \in 1..Len(lit) : LowerCh(At(t, p + j - 1)) = lit[j]

SkipLetters(t, p) ==
    CHOOSE q \in p..(Len(t) + 1) :
        (\A i \in p..(q - 1) : IsLetter(t[i])) /\ ~IsLetter(At(t, q))
SkipAlnum(t, p) ==
    CHOOSE q \in p..(Len(t) + 1) :
        (\A i \in p..(q - 1) : IsLetter(t[i]) \/ IsDigit(t[i]))
        /\ ~(IsLetter(At(t, q)) \/ IsDigit(At(t, q)))
SkipSectionSigns(t, p) ==
    CHOOSE q \in p..(Len(t) + 1) :
        (\A i \in p..(q - 1) : t[i] = "§") /\ At(t, q) # "§"

\* (?:Civ\.|Crim\.|Evid\.|R\.) and (?:Proc\.|Code)
RuleWords == << <<"c","i","v",".">>, <<"c","r","i","m",".">>,
                <<"e","v","i","d",".">>, <<"r",".">> >>
CodeWords == << <<"p","r","o","c",".">>, <<"c","o","d","e">> >>

\* the first alternative of words that is at p: the position after it, or 0
WordEnd(t, p, words) ==
    LET ok == {a \in 1..Len(words) : LitAt(t, p, words[a])}
    IN  IF ok = {} THEN 0 ELSE p + Len(words[SetMin(ok)])

\* (U\.S\.C\.|C\.F\.R\.|[A-Z][a-z]+\.\s*(?:Civ\.|...)\s*(?:Proc\.|Code)?)
\* from r: the end of the group, 0 if it does not match.  In the third
\* alternative l is the end of the letters, b the end of the rule word and
\* b2 the position after the \s* that follows it.
CodeWordEnd(b2, w) == IF w # 0 THEN w ELSE b2
CodeAfterRule(t, b2) == CodeWordEnd(b2, WordEnd(t, b2, CodeWords))
CodeRule(t, b) == IF b # 0 THEN CodeAfterRule(t, SkipSpace(t, b)) ELSE 0
CodeAbbreviation(t, r, l) ==
    IF l >= r + 2 /\ At(t, l) = "."
    THEN CodeRule(t, WordEnd(t, SkipSpace(t, l + 1), RuleWords))
    ELSE 0
CodeEnd(t, r) ==
    IF LitAt(t, r, <<"u",".","s",".","c",".">>) THEN r + 6
    ELSE IF LitAt(t, r, <<"c",".","f",".","r",".">>) THEN r + 6
    ELSE CodeAbbreviation(t, r, SkipLetters(t, r))

\* (?:\.\d+)* and (?:\([a-zA-Z0-9]+\))* from p, both greedy
RECURSIVE SkipDotted(_, _)
SkipDotted(t, p) ==
    IF At(t, p) = "." /\ IsDigit(At(t, p + 1))
    THEN SkipDotted(t, SkipDigits(t, p + 1))
    ELSE p
ParenEnd(t, p, a) == IF a > p + 1 /\ At(t, a) = ")" THEN a + 1 ELSE p
RECURSIVE SkipParens(_, _)
SkipParens(t, p) ==
    IF At(t, p) = "(" /\ ParenEnd(t, p, SkipAlnum(t, p + 1)) # p
    THEN SkipParens(t, ParenEnd(t, p, SkipAlnum(t, p + 1)))
    ELSE p

\* The statutory pattern tried at start s:
\* (\d+)\s+(code)\s*§+\s*(\d+(?:\.\d+)*(?:\([a-zA-Z0-9]+\))*)
\* with d the end of the title, r the code and x its end, p and q the
\* section signs, u the section
StatuteRecord(s, d, r, x, u, e) ==
    [ok |-> TRUE, s |-> s, end |-> e, ngroups |-> 3,
     g1 |-> [s |-> s, e |-> d], g2 |-> [s |-> r, e |-> x],
     g3 |-> [s |-> u, e |-> e], g4 |-> NoGroup, g5 |-> NoGroup,
     g6 |-> NoGroup, g7 |-> NoGroup]
StatuteSection(t, s, d, r, x, u) ==
    IF IsDigit(At(t, u))
    THEN StatuteRecord(s, d, r, x, u,
                       SkipParens(t, SkipDotted(t, SkipDigits(t, u))))
    ELSE NoMatch
StatuteSigns(t, s, d, r, x, p, q) ==
    IF q > p THEN StatuteSection(t, s, d, r, x, SkipSpace(t, q)) ELSE NoMatch
StatuteAfterCode(t, s, d, r, x, p) ==
    StatuteSigns(t, s, d, r, x, p, SkipSectionSigns(t, p))
StatuteCode(t, s, d, r, x) ==
    IF x # 0 THEN StatuteAfterCode(t, s, d, r, x, SkipSpace(t, x))
    ELSE NoMatch
StatuteTitle(t, s, d, r) ==
    IF d > s /\ r > d THEN StatuteCode(t, s, d, r, CodeEnd(t, r)) ELSE NoMatch
StatuteTitleEnd(t, s, d) == StatuteTitle(t, s, d, SkipSpace(t, d))
StatuteMatchAt(t, s) == StatuteTitleEnd(t, s, SkipDigits(t, s))

\* citation_patterns, in list order
citation_patterns == <<"federal", "state", "statute">>

MatchAt(t, s, pattern) ==
    IF pattern = "statute" THEN StatuteMatchAt(t, s)
    ELSE CaseMatchAt(t, s, pattern)

\* re.finditer(pattern, motion_text, re.IGNORECASE) from pos: the matches
\* left to right, each search resuming where the previous match ended
RECURSIVE FindIter(_, _, _)
FindNext(t, pattern, m) == <<m>> \o FindIter(t, m.end, pattern)
FindFirst(t, pattern, starts) ==
    IF starts = {} THEN <<>>
    ELSE FindNext(t, pattern, MatchAt(t, SetMin(starts), pattern))
FindIter(t, pos, pattern) ==
    FindFirst(t, pattern, {s \in pos..Len(t) : MatchAt(t, s, pattern).ok})

(***************************************************************************)
(* MotionAnalyzer._extract_legal_citations                                 *)
(***************************************************************************)
\* citations[:50]
MaxCitations == 50

\* match.group(n) as text; an optional group that took no part is None
Group(t, g) == SubSeq(t, g.s, g.e - 1)

\* "U.S.C." in match.group(0) or "C.F.R." in ... or "Code" in ...: the test
\* is on the matched text as written, so it is case-sensitive
IsStatutoryText(g0) ==
    \/ Contains(g0, <<"U",".","S",".","C",".">>)
    \/ Contains(g0, <<"C",".","F",".","R",".">>)
    \/ Contains(g0, <<"C","o","d","e">>)

\* the else branch reads match.group(4) .. match.group(7): on a match of the
\* three-group statutory pattern re raises IndexError("no such group"),
\* which `except (ValueError, AttributeError)' does not catch
RaisesIndexError(t, m) ==
    ~IsStatutoryText(Group(t, [s |-> m.s, e |-> m.end])) /\ m.ngroups < 4

\* the dict appended in the statutory branch and in the case branch
StatuteCitation(t, m, g0) ==
    [type |-> "statute",
     full_citation |-> Strip(g0),
     title |-> Group(t, m.g1),
     code |-> Group(t, m.g2),
     section |-> Group(t, m.g3)]
CaseCitation(t, m, g0) ==
    [type |-> "case",
     full_citation |-> Strip(g0),
     case_name |-> Strip(Group(t, m.g1)) \o <<" ","v","."," ">>
                       \o Strip(Group(t, m.g2)),
     volume |-> Group(t, m.g3),
     reporter |-> Strip(Group(t, m.g4)),
     page |-> Group(t, m.g5),
     court |-> IF m.g6 # NoGroup THEN Group(t, m.g6)
               ELSE <<"U","n","k","n","o","w","n">>,
     year |-> IF m.g7 # NoGroup THEN ParseInt(Group(t, m.g7)) ELSE 0]

\* the record appended for one match, whose text is g0
CitationOf(t, m, g0) ==
    IF IsStatutoryText(g0) THEN StatuteCitation(t, m, g0)
    ELSE CaseCitation(t, m, g0)
CitationRecord(t, m) == CitationOf(t, m, Group(t, [s |-> m.s, e |-> m.end]))

\* every match the two loops visit, in the order they visit them
AllMatches(t) ==
    FindIter(t, 1, citation_patterns[1]) \o FindIter(t, 1, citation_patterns[2])
        \o FindIter(t, 1, citation_patterns[3])

\* s[:n]
Take(s, n) == SubSeq(s, 1, IF Len(s) < n THEN Len(s) ELSE n)

\* The outcome of the call on the matches ms: the list returned, or raised
\* = TRUE when the IndexError escapes.  Neither ValueError nor
\* AttributeError can occur: groups 1 to 5 always take part in a match and
\* (\d{4}) always parses.
CitationsOf(t, ms) ==
    IF \E i \in 1..Len(ms) : RaisesIndexError(t, ms[i])
    THEN [raised |-> TRUE, citations |-> <<>>]
    ELSE [raised |-> FALSE,
          citations |-> Take([i \in 1..Len(ms) |-> CitationRecord(t, ms[i])],
                             MaxCitations)]
ExtractLegalCitations(t) == CitationsOf(t, AllMatches(t))

(***************************************************************************)
(* Parsed JSON values and the Python operations the normalizer uses        *)
(***************************************************************************)
JNull == [k |-> "null"]
JNum(n) == [k |-> "num", n |-> n]
JStr(s) == [k |-> "str", s |-> s]
JList(l) == [k |-> "list", l |-> l]
\* a dict: its <<key, value>> items in insertion order, keys pairwise distinct
JObj(p) == [k |-> "obj", p |-> p]

\* the keys the source reads and writes
K_all_arguments == JStr(<<"a","l","l","_","a","r","g","u","m","e","n","t","s">>)
K_arguments_by_category == JStr(<<"a","r","g","u","m","e","n","t","s","_","b","y","_","c","a","t","e","g","o","r","y">>)
K_total_arguments_found == JStr(<<"t","o","t","a","l","_","a","r","g","u","m","e","n","t","s","_","f","o","u","n","d">>)
K_categories_used == JStr(<<"c","a","t","e","g","o","r","i","e","s","_","u","s","e","d">>)
K_confidence_in_analysis == JStr(<<"c","o","n","f","i","d","e","n","c","e","_","i","n","_","a","n","a","l","y","s","i","s">>)
K_notable_omissions == JStr(<<"n","o","t","a","b","l","e","_","o","m","i","s","s","i","o","n","s">>)
K_research_priorities == JStr(<<"r","e","s","e","a","r","c","h","_","p","r","i","o","r","i","t","i","e","s">>)
K_argument_id == JStr(<<"a","r","g","u","m","e","n","t","_","i","d">>)
K_confidence_score == JStr(<<"c","o","n","f","i","d","e","n","c","e","_","s","c","o","r","e">>)
K_priority_level == JStr(<<"p","r","i","o","r","i","t","y","_","l","e","v","e","l">>)
K_subcategories == JStr(<<"s","u","b","c","a","t","e","g","o","r","i","e","s">>)
K_weaknesses == JStr(<<"w","e","a","k","n","e","s","s","e","s">>)
K_cited_statutes == JStr(<<"c","i","t","e","d","_","s","t","a","t","u","t","e","s">>)
K_cited_cases == JStr(<<"c","i","t","e","d","_","c","a","s","e","s">>)
K_category == JStr(<<"c","a","t","e","g","o","r","y">>)
K_argument_summary == JStr(<<"a","r","g","u","m","e","n","t","_","s","u","m","m","a","r","y">>)
K_case_name == JStr(<<"c","a","s","e","_","n","a","m","e">>)
K_research_area == JStr(<<"r","e","s","e","a","r","c","h","_","a","r","e","a">>)
K_related_arguments == JStr(<<"r","e","l","a","t","e","d","_","a","r","g","u","m","e","n","t","s">>)

\* key in d, d[key], d[key] = v, d.keys() and d.get(key, default) on a dict
Has(d, key) == \E i \in 1..Len(d.p) : d.p[i][1] = key
Get(d, key) == d.p[CHOOSE i \in 1..Len(d.p) : d.p[i][1] = key][2]
Set(d, key, v) ==
    IF Has(d, key)
    THEN JObj([i \in 1..Len(d.p) |->
                 IF d.p[i][1] = key THEN <<key, v>> ELSE d.p[i]])
    ELSE JObj(Append(d.p, <<key, v>>))
Keys(d) == [i \in 1..Len(d.p) |-> d.p[i][1]]
GetOr(d, key, default) == IF Has(d, key) THEN Get(d, key) ELSE default

\* `key in x' for a str key: "yes", "no", or "raise" (TypeError) when x is
\* not a container
PyIn(key, x) ==
    CASE x.k = "obj" -> IF Has(x, key) THEN "yes" ELSE "no"
      [] x.k = "list" ->
            IF \E i \in 1..Len(x.l) : x.l[i] = key THEN "yes" ELSE "no"
      [] x.k = "str" -> IF Contains(x.s, key.s) THEN "yes" ELSE "no"
      [] OTHER -> "raise"

\* iterating x: the items visited, or raised (TypeError) when x is None or
\* a number; a dict yields its keys, a str its characters
PyIter(x) ==
    CASE x.k = "list" -> [raised |-> FALSE, items |-> x.l]
      [] x.k = "obj" -> [raised |-> FALSE, items |-> Keys(x)]
      [] x.k = "str" ->
            [raised |-> FALSE,
             items |-> [i \in 1..Len(x.s) |-> JStr(<<x.s[i]>>)]]
      [] OTHER -> [raised |-> TRUE, items |-> <<>>]

\* len(x): -1 stands for the TypeError on None and numbers
PyLen(x) ==
    CASE x.k = "list" -> Len(x.l)
      [] x.k = "obj" -> Len(x.p)
      [] x.k = "str" -> Len(x.s)
      [] OTHER -> -1

\* whether x can be a dict key: lists and dicts are unhashable
Hashable(x) == x.k \notin {"list", "obj"}

(***************************************************************************)
(* MotionAnalyzer._ensure_comprehensive_structure                          *)
(***************************************************************************)
\* str(n) for n >= 0
RECURSIVE Decimal(_)
Decimal(n) ==
    IF n < 10 THEN <<DigitChars[n + 1]>>
    ELSE Decimal(n \div 10) \o <<DigitChars[(n % 10) + 1]>>

\* format(n, "03d"): zero-padded to at least three digits
RECURSIVE ZeroPad(_, _)
ZeroPad(s, width) == IF Len(s) >= width THEN s ELSE ZeroPad(<<"0">> \o s, width)

\* faulty variant: the enumerate index used as it is (0-based numbering)
FormatArgId_ZeroBased(i) == <<"a","r","g","_">> \o ZeroPad(Decimal(i), 3)
\* f"arg_{i+1:03d}" for the enumerate index i (0-based)
FormatArgId(i) == <<"a","r","g","_">> \o ZeroPad(Decimal(i + 1), 3)

\* the defaults of the first loop; confidence values are in hundredths
DefaultConfidenceScore == 80
DefaultPriorityLevel == 3
DefaultConfidenceInAnalysis == 85

\* the six `if key not in arg: arg[key] = default' statements, in order,
\* for the entry at enumerate index i
ArgDefaults(i) ==
    << <<K_argument_id, JStr(FormatArgId(i))>>,
       <<K_confidence_score, JNum(DefaultConfidenceScore)>>,
       <<K_priority_level, JNum(DefaultPriorityLevel)>>,
       <<K_subcategories, JList(<<>>)>>,
       <<K_weaknesses, JList(<<>>)>>,
       <<K_cited_statutes, JList(<<>>)>> >>

Raised == [raised |-> TRUE]
Returned(v) == [raised |-> FALSE, v |-> v]

\* The statements defaults[j..] applied to one entry.  `key not in arg'
\* raises TypeError when arg is None or a number; the item assignment
\* raises TypeError when arg is a list or a str.
RECURSIVE FillDefaults(_, _, _)
FillDefaults(arg, defaults, j) ==
    IF j > Len(defaults) THEN Returned(arg)
    ELSE LET in == PyIn(defaults[j][1], arg)
         IN  CASE in = "raise" -> Raised
               [] in = "yes" -> FillDefaults(arg, defaults, j + 1)
               [] OTHER ->
                    IF arg.k # "obj" THEN Raised
                    ELSE FillDefaults(Set(arg, defaults[j][1], defaults[j][2]),
                                      defaults, j + 1)

\* for i, arg in enumerate(data['all_arguments']): ... on the items the
\* iteration yields; the entries of a list are dicts mutated in place, so
\* the list then holds the filled entries, and nothing else can be changed
FilledArguments(all_arguments, filled) ==
    IF \E i \in 1..Len(filled) : filled[i].raised THEN Raised
    ELSE IF all_arguments.k = "list"
    THEN Returned(JList([i \in 1..Len(filled) |-> filled[i].v]))
    ELSE Returned(all_arguments)
EnsureItems(all_arguments, it) ==
    IF it.raised THEN Raised
    ELSE FilledArguments(all_arguments,
             [i \in 1..Len(it.items) |->
                 FillDefaults(it.items[i], ArgDefaults(i - 1), 1)])
EnsureArguments(all_arguments) == EnsureItems(all_arguments, PyIter(all_arguments))

StoreArguments(data, ensured) ==
    IF ensured.raised THEN Raised
    ELSE Returned(Set(data, K_all_arguments, ensured.v))

\* `if 'all_arguments' in data: for i, arg in enumerate(...)'
EnsureAllArguments(data) ==
    IF Has(data, K_all_arguments)
    THEN StoreArguments(data, EnsureArguments(Get(data, K_all_arguments)))
    ELSE Returned(data)

\* The grouping loop over args[j..]: category = arg.get('category', 'other')
\* raises AttributeError unless arg is a dict, and an unhashable category
\* raises TypeError at `category not in data['arguments_by_category']'.
RECURSIVE GroupArguments(_, _, _)
GroupArguments(groups, args, j) ==
    IF j > Len(args) THEN Returned(groups)
    ELSE IF args[j].k # "obj" THEN Raised
    ELSE LET category == GetOr(args[j], K_category, JStr(<<"o","t","h","e","r">>))
             members == IF Has(groups, category) THEN Get(groups, category).l
                        ELSE <<>>
         IN  IF ~Hashable(category) THEN Raised
             ELSE GroupArguments(
                      Set(groups, category, JList(Append(members, args[j]))),
                      args, j + 1)

\* `if 'arguments_by_category' not in data and 'all_arguments' in data'
StoreGrouping(data, built) ==
    IF built.raised THEN Raised
    ELSE Returned(Set(data, K_arguments_by_category, built.v))
GroupItems(data, it) ==
    IF it.raised THEN Raised
    ELSE StoreGrouping(data, GroupArguments(JObj(<<>>), it.items, 1))

\* faulty variant: the `not in data' guard is missing, so the entries are
\* appended to the grouping that is already there
BuildArgumentsByCategory_Regroup(data) ==
    IF ~Has(data, K_all_arguments) THEN Returned(data)
    ELSE IF GetOr(data, K_arguments_by_category, JObj(<<>>)).k # "obj"
    THEN Raised
    ELSE LET it == PyIter(Get(data, K_all_arguments))
         IN  IF it.raised THEN Raised
             ELSE StoreGrouping(data,
                      GroupArguments(
                          GetOr(data, K_arguments_by_category, JObj(<<>>)),
                          it.items, 1))
BuildArgumentsByCategory(data) ==
    IF ~Has(data, K_arguments_by_category) /\ Has(data, K_all_arguments)
    THEN GroupItems(data, PyIter(Get(data, K_all_arguments)))
    ELSE Returned(data)

\* data['total_arguments_found'] = len(data.get('all_arguments', []))
StoreTotal(data, n) ==
    IF n < 0 THEN Raised
    ELSE Returned(Set(data, K_total_arguments_found, JNum(n)))

\* faulty variant: a counter supplied by the model is trusted
SetTotalArgumentsFound_Trusting(data) ==
    IF Has(data, K_total_arguments_found) THEN Returned(data)
    ELSE StoreTotal(data, PyLen(GetOr(data, K_all_arguments, JList(<<>>))))
SetTotalArgumentsFound(data) ==
    StoreTotal(data, PyLen(GetOr(data, K_all_arguments, JList(<<>>))))

\* `if 'categories_used' not in data': list(....keys()) raises
\* AttributeError when arguments_by_category is not a dict
StoreCategories(data, grouping) ==
    IF grouping.k # "obj" THEN Raised
    ELSE Returned(Set(data, K_categories_used, JList(Keys(grouping))))
SetCategoriesUsed(data) ==
    IF Has(data, K_categories_used) THEN Returned(data)
    ELSE StoreCategories(data, GetOr(data, K_arguments_by_category, JObj(<<>>)))

\* `if 'confidence_in_analysis' not in data' and `return data'
SetConfidenceInAnalysis(data) ==
    IF Has(data, K_confidence_in_analysis) THEN Returned(data)
    ELSE Returned(Set(data, K_confidence_in_analysis,
                      JNum(DefaultConfidenceInAnalysis)))

\* The whole function on a parsed JSON object: Returned(normalized data), or
\* Raised when one of its statements raises.  Each step works on what the
\* step before it returned.
AfterCategories(out) ==
    IF out.raised THEN Raised ELSE SetConfidenceInAnalysis(out.v)
AfterTotal(out) ==
    IF out.raised THEN Raised ELSE AfterCategories(SetCategoriesUsed(out.v))
AfterGrouping(out) ==
    IF out.raised THEN Raised ELSE AfterTotal(SetTotalArgumentsFound(out.v))
AfterArguments(out) ==
    IF out.raised THEN Raised
    ELSE AfterGrouping(BuildArgumentsByCategory(out.v))
EnsureComprehensiveStructure(data) == AfterArguments(EnsureAllArguments(data))

(***************************************************************************)
(* The structural validator: the ComprehensiveMotionAnalysis constructor.  *)
(* The typed result keeps the fields the post-processor reads or writes.   *)
(***************************************************************************)
IsStr(x) == x.k = "str"
IsStrList(x) == x.k = "list" /\ \A i \in 1..Len(x.l) : IsStr(x.l[i])

MinPriorityLevel == 1
MaxPriorityLevel == 5

ValidCitation(c) ==
    c.k = "obj" /\ Has(c, K_case_name) /\ IsStr(Get(c, K_case_name))

ValidArgument(a) ==
    /\ a.k = "obj"
    /\ Has(a, K_argument_id) /\ IsStr(Get(a, K_argument_id))
    /\ Has(a, K_category) /\ IsStr(Get(a, K_category))
    /\ Has(a, K_argument_summary) /\ IsStr(Get(a, K_argument_summary))
    /\ Has(a, K_cited_cases) =>
           /\ Get(a, K_cited_cases).k = "list"
           /\ \A i \in 1..Len(Get(a, K_cited_cases).l) :
                  ValidCitation(Get(a, K_cited_cases).l[i])
    /\ Has(a, K_cited_statutes) /\ IsStrList(Get(a, K_cited_statutes))
    /\ Has(a, K_priority_level) /\ Get(a, K_priority_level).k = "num"
    /\ Get(a, K_priority_level).n >= MinPriorityLevel
    /\ Get(a, K_priority_level).n <= MaxPriorityLevel
    /\ Has(a, K_confidence_score) /\ Get(a, K_confidence_score).k = "num"

ValidArgumentList(x) ==
    x.k = "list" /\ \A i \in 1..Len(x.l) : ValidArgument(x.l[i])

ValidPriority(r) ==
    /\ r.k = "obj"
    /\ Has(r, K_research_area) /\ IsStr(Get(r, K_research_area))
    /\ Has(r, K_related_arguments) => IsStrList(Get(r, K_related_arguments))

\* whether the normalized object parses into the typed result; otherwise
\* pydantic raises ValidationError
ValidAnalysis(d) ==
    /\ Has(d, K_all_arguments) /\ ValidArgumentList(Get(d, K_all_arguments))
    /\ Has(d, K_arguments_by_category)
    /\ Get(d, K_arguments_by_category).k = "obj"
    /\ \A i \in 1..Len(Get(d, K_arguments_by_category).p) :
           /\ IsStr(Get(d, K_arguments_by_category).p[i][1])
           /\ ValidArgumentList(Get(d, K_arguments_by_category).p[i][2])
    /\ Has(d, K_total_arguments_found)
    /\ Get(d, K_total_arguments_found).k = "num"
    /\ Has(d, K_categories_used) /\ IsStrList(Get(d, K_categories_used))
    /\ Has(d, K_notable_omissions) => IsStrList(Get(d, K_notable_omissions))
    /\ Has(d, K_research_priorities) =>
           /\ Get(d, K_research_priorities).k = "list"
           /\ \A i \in 1..Len(Get(d, K_research_priorities).l) :
                  ValidPriority(Get(d, K_research_priorities).l[i])

Texts(x) == [i \in 1..Len(x.l) |-> x.l[i].s]

TypedArgument(a) ==
    [argument_id |-> Get(a, K_argument_id).s,
     category |-> Get(a, K_category).s,
     argument_summary |-> Get(a, K_argument_summary).s,
     cited_cases |->
        LET cs == GetOr(a, K_cited_cases, JList(<<>>)).l
        IN  [i \in 1..Len(cs) |-> [case_name |-> Get(cs[i], K_case_name).s]],
     cited_statutes |-> Texts(Get(a, K_cited_statutes)),
     priority_level |-> Get(a, K_priority_level).n,
     confidence_score |-> Get(a, K_confidence_score).n]

TypedArguments(x) == [i \in 1..Len(x.l) |-> TypedArgument(x.l[i])]

TypedPriority(r) ==
    [research_area |-> Get(r, K_research_area).s,
     related_arguments |-> Texts(GetOr(r, K_related_arguments, JList(<<>>)))]

\* The typed result.  Validation builds a new object for every argument, so
\* the arguments under arguments_by_category are values of their own, not
\* the objects of all_arguments; the grouping is kept as <<category,
\* arguments>> items in the order of the dict.
TypedAnalysis(d) ==
    [all_arguments |-> TypedArguments(Get(d, K_all_arguments)),
     arguments_by_category |->
        LET g == Get(d, K_arguments_by_category).p
        IN  [i \in 1..Len(g) |-> <<g[i][1].s, TypedArguments(g[i][2])>>],
     total_arguments_found |-> Get(d, K_total_arguments_found).n,
     categories_used |-> Texts(Get(d, K_categories_used)),
     custom_categories_created |-> <<>>,
     notable_omissions |-> Texts(GetOr(d, K_notable_omissions, JList(<<>>))),
     research_priorities |->
        LET rs == GetOr(d, K_research_priorities, JList(<<>>)).l
        IN  [i \in 1..Len(rs) |-> TypedPriority(rs[i])]]

(***************************************************************************)
(* MotionAnalyzer._check_for_missed_arguments                              *)
(***************************************************************************)
\* missed[:5]
MaxMissed == 5

\* patterns_to_check: each regular expression is a list of alternatives
\* (a|b) and each alternative a list of literals separated by .* ; all are
\* searched with re.IGNORECASE
patterns_to_check ==
    << [alts |-> << <<<<"s","t","a","t","u","t","e"," ","o","f"," ","l","i","m","i","t","a","t","i","o","n","s">>>> >>,
        description |-> <<"S","t","a","t","u","t","e"," ","o","f"," ","l","i","m","i","t","a","t","i","o","n","s"," ","a","r","g","u","m","e","n","t">>],
       [alts |-> << <<<<"f","a","i","l","u","r","e"," ","t","o"," ","s","t","a","t","e"," ","a"," ","c","l","a","i","m">>>> >>,
        description |-> <<"F","a","i","l","u","r","e"," ","t","o"," ","s","t","a","t","e"," ","a"," ","c","l","a","i","m"," ","a","r","g","u","m","e","n","t">>],
       [alts |-> << <<<<"l","a","c","k"," ","o","f"," ","s","t","a","n","d","i","n","g">>>> >>,
        description |-> <<"S","t","a","n","d","i","n","g"," ","c","h","a","l","l","e","n","g","e">>],
       [alts |-> << <<<<"i","m","p","r","o","p","e","r"," ","v","e","n","u","e">>>> >>,
        description |-> <<"V","e","n","u","e"," ","c","h","a","l","l","e","n","g","e">>],
       [alts |-> << <<<<"p","e","r","s","o","n","a","l"," ","j","u","r","i","s","d","i","c","t","i","o","n">>>> >>,
        description |-> <<"P","e","r","s","o","n","a","l"," ","j","u","r","i","s","d","i","c","t","i","o","n"," ","c","h","a","l","l","e","n","g","e">>],
       [alts |-> << <<<<"f","a","i","l","u","r","e"," ","t","o"," ","j","o","i","n">>, <<"p","a","r","t","y">>>> >>,
        description |-> <<"F","a","i","l","u","r","e"," ","t","o"," ","j","o","i","n"," ","n","e","c","e","s","s","a","r","y"," ","p","a","r","t","y">>],
       [alts |-> << <<<<"r","e","s"," ","j","u","d","i","c","a","t","a">>>>, <<<<"c","o","l","l","a","t","e","r","a","l"," ","e","s","t","o","p","p","e","l">>>> >>,
        description |-> <<"P","r","e","c","l","u","s","i","o","n"," ","a","r","g","u","m","e","n","t">>],
       [alts |-> << <<<<"a","r","b","i","t","r","a","t","i","o","n"," ","c","l","a","u","s","e">>>>, <<<<"a","g","r","e","e","m","e","n","t">>>> >>,
        description |-> <<"A","r","b","i","t","r","a","t","i","o","n"," ","a","r","g","u","m","e","n","t">>],
       [alts |-> << <<<<"q","u","a","l","i","f","i","e","d"," ","i","m","m","u","n","i","t","y">>>> >>,
        description |-> <<"Q","u","a","l","i","f","i","e","d"," ","i","m","m","u","n","i","t","y"," ","d","e","f","e","n","s","e">>],
       [alts |-> << <<<<"g","o","v","e","r","n","m","e","n","t","a","l"," ","i","m","m","u","n","i","t","y">>>> >>,
        description |-> <<"G","o","v","e","r","n","m","e","n","t","a","l"," ","i","m","m","u","n","i","t","y"," ","d","e","f","e","n","s","e">>] >>

\* pieces[j..] matched from p on, each after .* (any run without newline)
RECURSIVE PiecesFrom(_, _, _, _)
PiecesFrom(t, p, pieces, j) ==
    IF j > Len(pieces) THEN TRUE
    ELSE \E q \in p..(Len(t) + 1) :
            /\ \A i \in p..(q - 1) : t[i] # "\n"
            /\ LitAt(t, q, pieces[j])
            /\ PiecesFrom(t, q + Len(pieces[j]), pieces, j + 1)

\* re.search(pattern, t, re.IGNORECASE) is not None
Search(pattern, t) ==
    \E a \in 1..Len(pattern.alts) :
        \E s \in 1..(Len(t) + 1) :
            /\ LitAt(t, s, pattern.alts[a][1])
            /\ PiecesFrom(t, s + Len(pattern.alts[a][1]), pattern.alts[a], 2)

\* " ".join(parts)
RECURSIVE Join(_)
Join(parts) ==
    IF parts = <<>> THEN <<>>
    ELSE IF Len(parts) = 1 THEN parts[1]
    ELSE parts[1] \o <<" ">> \o Join(Tail(parts))

OmissionNote(description) ==
    <<"P","o","t","e","n","t","i","a","l"," ">> \o description \o <<" ","n","o","t"," ","f","u","l","l","y"," ","e","x","t","r","a","c","t","e","d">>

\* the list returned: a note for each pattern found in the text and not in
\* the joined summaries, in list order, cut to the first five
MissedNotes(idx) ==
    [i \in 1..Len(idx) |-> OmissionNote(patterns_to_check[idx[i]].description)]
MissedIn(text, existing_summaries) ==
    LET Missing(i) == /\ Search(patterns_to_check[i], text)
                      /\ ~Search(patterns_to_check[i], existing_summaries)
    IN  MissedNotes(SelectSeq([i \in 1..Len(patterns_to_check) |-> i], Missing))

\* faulty variant: `return missed' without the [:5] cut
CheckForMissedArguments_Uncut(text, result) ==
    MissedIn(text,
             Join([i \in 1..Len(result.all_arguments) |->
                      Lower(result.all_arguments[i].argument_summary)]))
CheckForMissedArguments(text, result) ==
    Take(MissedIn(text,
                  Join([i \in 1..Len(result.all_arguments) |->
                           Lower(result.all_arguments[i].argument_summary)])),
         MaxMissed)

(***************************************************************************)
(* MotionAnalyzer._post_process_comprehensive_analysis                     *)
(***************************************************************************)
\* related[:3]
MaxRelated == 3

\* {cat.value for cat in ArgumentCategory}
standard_categories ==
    {<<"n","e","g","l","i","g","e","n","c","e","_","d","u","t","y">>, <<"n","e","g","l","i","g","e","n","c","e","_","b","r","e","a","c","h">>, <<"n","e","g","l","i","g","e","n","c","e","_","c","a","u","s","a","t","i","o","n">>,
     <<"n","e","g","l","i","g","e","n","c","e","_","d","a","m","a","g","e","s">>, <<"l","i","a","b","i","l","i","t","y","_","i","s","s","u","e","s">>, <<"c","a","u","s","a","t","i","o","n","_","d","i","s","p","u","t","e","s">>,
     <<"d","a","m","a","g","e","s","_","a","r","g","u","m","e","n","t","s">>, <<"p","r","o","c","e","d","u","r","a","l","_","d","e","f","e","n","s","e","s">>,
     <<"e","x","p","e","r","t","_","w","i","t","n","e","s","s","_","c","h","a","l","l","e","n","g","e","s">>, <<"e","v","i","d","e","n","c","e","_","a","d","m","i","s","s","i","b","i","l","i","t","y">>}

valid_case_citations(extracted) ==
    {Lower(extracted[i].case_name) :
        i \in {j \in 1..Len(extracted) : extracted[j].type = "case"}}
valid_statute_citations(extracted) ==
    {Lower(extracted[i].full_citation) :
        i \in {j \in 1..Len(extracted) : extracted[j].type = "statute"}}

\* faulty variant: cited cases are not filtered
KeepCase_Unfiltered(citation, text, extracted) == TRUE
\* faulty variant: only the substring test, without the extractor's names
KeepCase_TextOnly(citation, text, extracted) ==
    Contains(Lower(text), Lower(citation.case_name))

\* the test that keeps a cited case
KeepCase(citation, text, extracted) ==
    \/ Contains(Lower(text), Lower(citation.case_name))
    \/ Lower(citation.case_name) \in valid_case_citations(extracted)

\* the test that keeps a cited statute
KeepStatute(statute, text, extracted) ==
    \/ Contains(Lower(text), Lower(statute))
    \/ \E cite \in valid_statute_citations(extracted) :
           Contains(cite, Lower(statute))

\* the body of `for arg in result.all_arguments'
CleanArgument(arg, text, extracted) ==
    LET CaseOk(c) == KeepCase(c, text, extracted)
        StatuteOk(s) == KeepStatute(s, text, extracted)
    IN  [arg EXCEPT !.cited_cases = SelectSeq(arg.cited_cases, CaseOk),
                    !.cited_statutes = SelectSeq(arg.cited_statutes, StatuteOk)]

\* logger.warning(f"Removed potentially fabricated citation: ..."): the
\* case names logged, in the order of the two loops
CaseNames(citations) == [j \in 1..Len(citations) |-> citations[j].case_name]
DroppedNames(arg, text, extracted) ==
    LET Dropped(c) == ~KeepCase(c, text, extracted)
    IN  CaseNames(SelectSeq(arg.cited_cases, Dropped))
RECURSIVE RemovalWarnings(_, _, _, _)
RemovalWarnings(arguments, text, extracted, i) ==
    IF i > Len(arguments) THEN <<>>
    ELSE DroppedNames(arguments[i], text, extracted)
             \o RemovalWarnings(arguments, text, extracted, i + 1)

\* the body of `for priority in result.research_priorities'
RelatedIds(hits) == [i \in 1..Len(hits) |-> hits[i].argument_id]
LinkPriority(priority, arguments) ==
    IF priority.related_arguments # <<>> THEN priority
    ELSE LET Related(a) == Contains(Lower(a.argument_summary),
                                    Lower(priority.research_area))
         IN  [priority EXCEPT !.related_arguments =
                 Take(RelatedIds(SelectSeq(arguments, Related)), MaxRelated)]

\* list(result.arguments_by_category.keys())
CategoryKeys(result) ==
    [i \in 1..Len(result.arguments_by_category) |->
        result.arguments_by_category[i][1]]

\* `for arg in result.all_arguments': the citations of every argument of
\* the flat list are cleaned
CleanCitations(result, text, extracted) ==
    [result EXCEPT !.all_arguments =
        [i \in 1..Len(result.all_arguments) |->
            CleanArgument(result.all_arguments[i], text, extracted)]]

\* result.notable_omissions.extend(potential_missed)
AddOmissions(result, text) ==
    [result EXCEPT !.notable_omissions =
        result.notable_omissions \o CheckForMissedArguments(text, result)]

\* `for priority in result.research_priorities'
LinkPriorities(result) ==
    [result EXCEPT !.research_priorities =
        [i \in 1..Len(result.research_priorities) |->
            LinkPriority(result.research_priorities[i], result.all_arguments)]]

\* `# Update metadata' to the end
UpdateMetadata(result) ==
    LET NotStandard(cat) == cat \notin standard_categories
    IN  [result EXCEPT
            !.total_arguments_found = Len(result.all_arguments),
            !.categories_used = CategoryKeys(result),
            !.custom_categories_created =
                SelectSeq(CategoryKeys(result), NotStandard)]

\* The whole method: citations cleaned in all_arguments, omission notes
\* appended, research priorities linked, metadata recomputed.
PostProcessComprehensiveAnalysis(result, text, extracted) ==
    UpdateMetadata(
        LinkPriorities(AddOmissions(CleanCitations(result, text, extracted),
                                    text)))

(***************************************************************************)
(* Inputs: motion texts and completions the service may return             *)
(***************************************************************************)
\* longest all_arguments array a completion carries
MaxArgs == 2

TextSmith == <<"S","m","i","t","h"," ","v","."," ","J","o","n","e","s",","," ","1","2","3"," ","F",".","3","d"," ","4","5","6"," ","(","9","t","h"," ","C","i","r","."," ","2","0","2","0",")">>
TextDoe == <<"D","o","e"," ","v",".","R","o","e",","," ","1"," ","F",".","3","d"," ","2",";"," ","4","2"," ","U",".","S",".","C","."," ","§"," ","1","9","8","3">>
TextOmit == <<"T","h","e"," ","s","t","a","t","u","t","e"," ","o","f"," ","l","i","m","i","t","a","t","i","o","n","s"," ","r","a","n","."," ","L","a","c","k"," ","o","f"," ","s","t","a","n","d","i","n","g",";"," ","i","m","p","r","o","p","e","r"," ","v","e","n","u","e",";"," ","r","e","s"," ","j","u","d","i","c","a","t","a",";"," ","t","h","e"," ","a","g","r","e","e","m","e","n","t",";"," ","q","u","a","l","i","f","i","e","d"," ","i","m","m","u","n","i","t","y",".">>
TextRule == <<"S","e","e"," ","1","2"," ","F","e","d","."," ","R","."," ","§"," ","5">>

MotionTexts == {TextSmith, TextDoe, TextOmit, TextRule}

Cite(name) == JObj(<< <<K_case_name, JStr(name)>> >>)

\* no identifier, no statutes; cites a case of TextSmith, the case of TextDoe
\* as the extractor writes it, and a case of neither text
ArgLimitations ==
    JObj(<< <<K_category, JStr(<<"p","r","o","c","e","d","u","r","a","l","_","d","e","f","e","n","s","e","s">>)>>,
            <<K_argument_summary, JStr(<<"T","h","e"," ","S","t","a","t","u","t","e"," ","o","f"," ","L","i","m","i","t","a","t","i","o","n","s"," ","b","a","r","s"," ","i","t">>)>>,
            <<K_cited_cases, JList(<<Cite(<<"S","m","i","t","h"," ","v","."," ","J","o","n","e","s">>),
                                     Cite(<<"D","o","e"," ","v","."," ","R","o","e">>),
                                     Cite(<<"P","o","e"," ","v","."," ","M","o","e">>)>>)>> >>)
\* identifier of the second position; statutes in and not in TextDoe; the
\* summary ends with the word the summary of ArgCoverage goes on from
ArgDuty ==
    JObj(<< <<K_argument_id, JStr(<<"a","r","g","_","0","0","2">>)>>,
            <<K_category, JStr(<<"l","i","a","b","i","l","i","t","y","_","i","s","s","u","e","s">>)>>,
            <<K_argument_summary, JStr(<<"N","o"," ","d","u","t","y"," ","w","a","s"," ","o","w","e","d"," ","a","n","d"," ","t","h","e"," ","f","o","r","u","m"," ","i","s"," ","i","m","p","r","o","p","e","r">>)>>,
            <<K_cited_cases, JList(<<Cite(<<"S","M","I","T","H"," ","V","."," ","J","O","N","E","S">>)>>)>>,
            <<K_cited_statutes, JList(<<JStr(<<"U",".","S",".","C","."," ","§"," ","1","9","8","3">>),
                                        JStr(<<"1","8"," ","U",".","S",".","C","."," ","§"," ","1">>)>>)>>,
            <<K_priority_level, JNum(1)>> >>)
\* ArgDuty as an entry of a grouping the model supplies, with every field
\* the normalizer would fill in
ArgDutyGrouped ==
    Set(Set(Set(ArgDuty, K_confidence_score, JNum(70)),
            K_subcategories, JList(<<>>)),
        K_weaknesses, JList(<<>>))
\* a custom category, no citations
ArgCoverage ==
    JObj(<< <<K_argument_id, JStr(<<"c","o","v">>)>>,
            <<K_category, JStr(<<"i","n","s","u","r","a","n","c","e","_","c","o","v","e","r","a","g","e">>)>>,
            <<K_argument_summary, JStr(<<"V","e","n","u","e"," ","c","l","a","u","s","e"," ","o","f"," ","t","h","e"," ","a","g","r","e","e","m","e","n","t"," ","e","x","c","l","u","d","e","s"," ","i","t">>)>>,
            <<K_confidence_score, JNum(55)>> >>)
\* no declared category
ArgUncategorized ==
    JObj(<< <<K_argument_summary, JStr(<<"D","a","m","a","g","e","s"," ","a","r","e"," ","s","p","e","c","u","l","a","t","i","v","e">>)>> >>)
\* a priority outside the range
ArgUrgent ==
    JObj(<< <<K_category, JStr(<<"c","a","u","s","a","t","i","o","n","_","d","i","s","p","u","t","e","s">>)>>,
            <<K_argument_summary, JStr(<<"N","o"," ","p","r","o","x","i","m","a","t","e"," ","c","a","u","s","e">>)>>,
            <<K_priority_level, JNum(9)>> >>)
\* a category that is a JSON array
ArgListCategory ==
    JObj(<< <<K_category, JList(<<JStr(<<"d","a","m","a","g","e","s","_","a","r","g","u","m","e","n","t","s">>)>>)>>,
            <<K_argument_summary, JStr(<<"N","o"," ","d","a","m","a","g","e","s">>)>> >>)

\* entries of all_arguments: objects, and entries that are not objects
ArgEntries ==
    {ArgLimitations, ArgDuty, ArgCoverage, ArgUncategorized, ArgUrgent,
     ArgListCategory, JNull, JStr(<<"n","/","a">>)}

RECURSIVE SeqsUpTo(_, _)
SeqsUpTo(S, n) ==
    IF n = 0 THEN {<<>>}
    ELSE LET shorter == SeqsUpTo(S, n - 1)
         IN  shorter \cup {Append(s, x) : s \in shorter, x \in S}

\* fields a completion may carry beside all_arguments
Envelopes ==
    { <<>>,
      << <<K_total_arguments_found, JNum(7)>>,
         <<K_categories_used, JList(<<JStr(<<"d","a","m","a","g","e","s","_","a","r","g","u","m","e","n","t","s">>)>>)>>,
         <<K_confidence_in_analysis, JNum(40)>> >>,
      << <<K_arguments_by_category,
           JObj(<< <<JStr(<<"l","i","a","b","i","l","i","t","y","_","i","s","s","u","e","s">>),
                     JList(<<ArgDutyGrouped>>)>> >>)>> >>,
      << <<K_notable_omissions, JList(<<JStr(<<"N","o"," ","d","a","m","a","g","e","s"," ","a","n","a","l","y","s","i","s">>)>>)>>,
         <<K_research_priorities,
           JList(<<JObj(<< <<K_research_area, JStr(<<"D","U","T","Y">>)>> >>)>>)>> >> }

\* the parsed JSON objects: an envelope with an all_arguments array, and
\* objects whose all_arguments is missing or is not an array
ParsedObjects ==
    {JObj(<< <<K_all_arguments, JList(args)>> >> \o env) :
        args \in SeqsUpTo(ArgEntries, MaxArgs), env \in Envelopes}
    \cup {JObj(<<>>),
          JObj(<< <<K_all_arguments, JNull>> >>),
          JObj(<< <<K_all_arguments, JNum(2)>> >>),
          JObj(<< <<K_all_arguments, JStr(<<>>)>> >>),
          JObj(<< <<K_all_arguments, JStr(<<"n","o","n","e">>)>> >>),
          JObj(<< <<K_all_arguments, JObj(<<>>)>> >>),
          JObj(<< <<K_arguments_by_category, JList(<<>>)>> >>)}

\* what the await delivers: the call raised, or content that json.loads
\* rejects, or content that json.loads turns into value
Completions ==
    {[kind |-> "provider_error"], [kind |-> "not_json"]}
    \cup {[kind |-> "json", value |-> d] : d \in ParsedObjects}

(***************************************************************************)
(* The analyzer object and one run of MotionAnalyzer.analyze_motion        *)
(***************************************************************************)
None == [k |-> "none"]

\* the messages of the exceptions analyze_motion raises
ErrInvalidFormat == "Analysis failed: Invalid response format from AI model"
ErrValidation == "Analysis failed: Response did not match expected format"
ErrGeneric == "Analysis failed: "
ErrInitialize == "initialize raised"

\* other coroutines run only while this analyze_motion is not running:
\* before it is called, while it is suspended at the await of the
\* completion call (its only suspension point), and after it returned or
\* raised
Quiescent == pc \in {"idle", "awaiting", "done", "failed"}

Fail(message, stage) ==
    /\ pc' = "failed"
    /\ error' = message
    /\ stages' = Append(stages, stage)

Init ==
    /\ initialized = FALSE
    /\ client = "none"
    /\ pc = "idle"
    /\ motion_text = <<>>
    /\ extracted_citations = <<>>
    /\ completion = None
    /\ result_data = None
    /\ motion_result = None
    /\ processed_result = None
    /\ error = ""
    /\ api_calls = 0
    /\ stages = <<>>
    /\ warnings = <<>>
    /\ creations = 0
    /\ peer_pc = "idle"

\* faulty variant: initialize() without `if self._initialized: return'
Initialize_Unguarded(created) ==
    /\ Quiescent
    /\ IF created
       THEN /\ client' = "handle"
            /\ initialized' = TRUE
            /\ creations' = creations + 1
       ELSE UNCHANGED <<initialized, client, creations>>
    /\ UNCHANGED <<pc, motion_text, extracted_citations, completion,
                   result_data, motion_result, processed_result, error,
                   api_calls, stages, warnings, peer_pc>>

\* initialize(), called by the application at startup; created tells
\* whether AsyncOpenAI(...) returned or raised
Initialize(created) ==
    /\ Quiescent
    /\ IF initialized THEN UNCHANGED <<initialized, client, creations>>
       ELSE IF created
       THEN /\ client' = "handle"
            /\ initialized' = TRUE
            /\ creations' = creations + 1
       ELSE UNCHANGED <<initialized, client, creations>>
    /\ UNCHANGED <<pc, motion_text, extracted_citations, completion,
                   result_data, motion_result, processed_result, error,
                   api_calls, stages, warnings, peer_pc>>

\* cleanup(), called by the application at shutdown, when no analysis is
\* in flight
Cleanup ==
    /\ pc \in {"idle", "done", "failed"}
    /\ peer_pc # "awaiting"
    /\ initialized' = FALSE
    /\ client' = "none"
    /\ creations' = 0
    /\ UNCHANGED <<pc, motion_text, extracted_citations, completion,
                   result_data, motion_result, processed_result, error,
                   api_calls, stages, warnings, peer_pc>>

\* analyze_motion(text) is called; `if not self._initialized: await
\* self.initialize()' is outside the try, so what initialize raises leaves
\* analyze_motion as it is
AnalyzeMotion(text, created) ==
    /\ pc = "idle"
    /\ motion_text' = text
    /\ IF initialized
       THEN /\ pc' = "extract"
            /\ UNCHANGED <<initialized, client, creations, error, stages>>
       ELSE IF created
       THEN /\ client' = "handle"
            /\ initialized' = TRUE
            /\ creations' = creations + 1
            /\ pc' = "extract"
            /\ stages' = Append(stages, "initialize")
            /\ UNCHANGED error
       ELSE /\ Fail(ErrInitialize, "initialize_raised")
            /\ UNCHANGED <<initialized, client, creations>>
    /\ UNCHANGED <<extracted_citations, completion, result_data,
                   motion_result, processed_result, api_calls, warnings,
                   peer_pc>>

\* extracted_citations = await self._extract_legal_citations(motion_text)
ExtractCitations ==
    /\ pc = "extract"
    /\ LET out == ExtractLegalCitations(motion_text)
       IN  IF out.raised
           THEN /\ Fail(ErrGeneric, "extract_raised")
                /\ UNCHANGED extracted_citations
           ELSE /\ extracted_citations' = out.citations
                /\ pc' = "call"
                /\ stages' = Append(stages, "extract")
                /\ UNCHANGED error
    /\ UNCHANGED <<initialized, client, motion_text, completion, result_data,
                   motion_result, processed_result, api_calls>>
    /\ UNCHANGED <<warnings, creations, peer_pc>>

\* self.client.chat.completions.create(...) is issued and the coroutine
\* suspends; on a missing client the attribute access raises
IssueCompletion ==
    /\ pc = "call"
    /\ IF client = "none"
       THEN Fail(ErrGeneric, "call_raised") /\ UNCHANGED api_calls
       ELSE /\ api_calls' = api_calls + 1
            /\ pc' = "awaiting"
            /\ stages' = Append(stages, "call")
            /\ UNCHANGED error
    /\ UNCHANGED <<initialized, client, motion_text, extracted_citations,
                   completion, result_data, motion_result, processed_result>>
    /\ UNCHANGED <<warnings, creations, peer_pc>>

\* faulty variant: a failed call is retried once
CompletionReturns_Retry(c) ==
    /\ pc = "awaiting"
    /\ completion' = c
    /\ CASE c.kind = "provider_error" ->
                /\ IF api_calls < 2
                   THEN pc' = "call" /\ UNCHANGED error
                   ELSE pc' = "failed" /\ error' = ErrGeneric
                /\ stages' = Append(stages, "provider_error")
                /\ UNCHANGED result_data
         [] c.kind = "not_json" ->
                Fail(ErrInvalidFormat, "json_decode_error")
                    /\ UNCHANGED result_data
         [] OTHER ->
                /\ result_data' = c.value
                /\ pc' = "normalize"
                /\ stages' = Append(stages, "parse")
                /\ UNCHANGED error
    /\ UNCHANGED <<initialized, client, motion_text, extracted_citations,
                   motion_result, processed_result, api_calls>>
    /\ UNCHANGED <<warnings, creations, peer_pc>>
\* the await resumes with c; result_data = json.loads(...content)
CompletionReturns(c) ==
    /\ pc = "awaiting"
    /\ completion' = c
    /\ CASE c.kind = "provider_error" ->
                Fail(ErrGeneric, "provider_error") /\ UNCHANGED result_data
         [] c.kind = "not_json" ->
                Fail(ErrInvalidFormat, "json_decode_error") /\ UNCHANGED result_data
         [] OTHER ->
                /\ result_data' = c.value
                /\ pc' = "normalize"
                /\ stages' = Append(stages, "parse")
                /\ UNCHANGED error
    /\ UNCHANGED <<initialized, client, motion_text, extracted_citations,
                   motion_result, processed_result, api_calls>>
    /\ UNCHANGED <<warnings, creations, peer_pc>>

\* result_data = self._ensure_comprehensive_structure(result_data)
Normalize ==
    /\ pc = "normalize"
    /\ LET out == EnsureComprehensiveStructure(result_data)
       IN  IF out.raised
           THEN Fail(ErrGeneric, "normalize_raised") /\ UNCHANGED result_data
           ELSE /\ result_data' = out.v
                /\ pc' = "validate"
                /\ stages' = Append(stages, "normalize")
                /\ UNCHANGED error
    /\ UNCHANGED <<initialized, client, motion_text, extracted_citations,
                   completion, motion_result, processed_result, api_calls>>
    /\ UNCHANGED <<warnings, creations, peer_pc>>

\* faulty variant: a ValidationError is swallowed and post-processing goes
\* on with an empty typed result
Validate_Lenient ==
    /\ pc = "validate"
    /\ IF ValidAnalysis(result_data)
       THEN /\ motion_result' = TypedAnalysis(result_data)
            /\ stages' = Append(stages, "validate")
       ELSE /\ motion_result' =
                  [all_arguments |-> <<>>, arguments_by_category |-> <<>>,
                   total_arguments_found |-> 0, categories_used |-> <<>>,
                   custom_categories_created |-> <<>>,
                   notable_omissions |-> <<>>, research_priorities |-> <<>>]
            /\ stages' = Append(stages, "validation_error")
    /\ pc' = "post_process"
    /\ UNCHANGED <<initialized, client, motion_text, extracted_citations,
                   completion, result_data, processed_result, error,
                   api_calls>>
    /\ UNCHANGED <<warnings, creations, peer_pc>>
\* motion_result = ComprehensiveMotionAnalysis(**result_data)
Validate ==
    /\ pc = "validate"
    /\ IF ValidAnalysis(result_data)
       THEN /\ motion_result' = TypedAnalysis(result_data)
            /\ pc' = "post_process"
            /\ stages' = Append(stages, "validate")
            /\ UNCHANGED error
       ELSE Fail(ErrValidation, "validation_error") /\ UNCHANGED motion_result
    /\ UNCHANGED <<initialized, client, motion_text, extracted_citations,
                   completion, result_data, processed_result, api_calls>>
    /\ UNCHANGED <<warnings, creations, peer_pc>>

\* processed_result = await self._post_process_comprehensive_analysis(...)
\* and `return processed_result'
PostProcess ==
    /\ pc = "post_process"
    /\ processed_result' =
           PostProcessComprehensiveAnalysis(motion_result, motion_text,
                                            extracted_citations)
    /\ warnings' = RemovalWarnings(motion_result.all_arguments, motion_text,
                                   extracted_citations, 1)
    /\ pc' = "done"
    /\ stages' = Append(stages, "post_process")
    /\ UNCHANGED <<initialized, client, motion_text, extracted_citations,
                   completion, result_data, motion_result, error, api_calls>>
    /\ UNCHANGED <<creations, peer_pc>>

\* the motion texts on which _extract_legal_citations raises
AbortingTexts == {t \in MotionTexts : ExtractLegalCitations(t).raised}

\* A second analyze_motion(text) called while the first is not running.
\* It runs without suspension from its first statement to the await of the
\* completion call: the initialization check and initialize(), the
\* extraction, and the access to self.client at the call.
PeerAnalyzeMotion(text, created) ==
    /\ Quiescent
    /\ peer_pc = "idle"
    /\ IF initialized
       THEN /\ peer_pc' = IF text \in AbortingTexts THEN "failed"
                          ELSE IF client = "none" THEN "call_raised"
                          ELSE "awaiting"
            /\ UNCHANGED <<initialized, client, creations>>
       ELSE IF created
       THEN /\ client' = "handle"
            /\ initialized' = TRUE
            /\ creations' = creations + 1
            /\ peer_pc' = IF text \in AbortingTexts THEN "failed"
                          ELSE "awaiting"
       ELSE /\ peer_pc' = "failed"
            /\ UNCHANGED <<initialized, client, creations>>
    /\ UNCHANGED <<pc, motion_text, extracted_citations, completion,
                   result_data, motion_result, processed_result, error,
                   api_calls, stages, warnings>>

\* the await of the second analyze_motion resumes; what follows works on
\* its locals only and ends with its return or raise
PeerCompletionReturns ==
    /\ Quiescent
    /\ peer_pc = "awaiting"
    /\ peer_pc' = "returned"
    /\ UNCHANGED <<initialized, client, creations, pc, motion_text,
                   extracted_citations, completion, result_data,
                   motion_result, processed_result, error, api_calls,
                   stages, warnings>>

Next ==
    \/ \E created \in BOOLEAN : Initialize(created)
    \/ Cleanup
    \/ \E text \in MotionTexts, created \in BOOLEAN :
           AnalyzeMotion(text, created)
    \/ ExtractCitations
    \/ IssueCompletion
    \/ \E c \in Completions : CompletionReturns(c)
    \/ Normalize
    \/ Validate
    \/ PostProcess
    \/ \E text \in MotionTexts, created \in BOOLEAN :
           PeerAnalyzeMotion(text, created)
    \/ PeerCompletionReturns

Spec == Init /\ [][Next]_vars

(***************************************************************************)
(* Properties                                                              *)
(***************************************************************************)
\* whether the step named s has been executed in the run
StageRan(s) == \E i \in 1..Len(stages) : stages[i] = s

\* _ensure_comprehensive_structure has returned; result_data is its output
\* and completion.value the object it received
Normalized == StageRan("normalize")

\* the all_arguments entry of the object received, when it is an array
ReceivedList ==
    /\ Has(completion.value, K_all_arguments)
    /\ Get(completion.value, K_all_arguments).k = "list"
Received == Get(completion.value, K_all_arguments).l
Ensured == Get(result_data, K_all_arguments).l

\* s occurs in the motion text, letter case ignored
InText(s) == Contains(Lower(motion_text), Lower(s))

\* name is, letter case ignored, the case name of a case record the
\* extractor returned
ExtractedCaseName(name) ==
    \E k \in 1..Len(extracted_citations) :
        /\ extracted_citations[k].type = "case"
        /\ Lower(extracted_citations[k].case_name) = Lower(name)

\* ---------------------------------------------------------------- C1
\* C1 as stated: after post-processing, every case name left in cited_cases
\* and every string left in cited_statutes of the arguments of all_arguments
\* is a case-insensitive substring of the motion text.
C1_EveryCitationInText ==
    pc = "done" =>
        \A i \in 1..Len(processed_result.all_arguments) :
            LET arg == processed_result.all_arguments[i]
            IN  /\ \A j \in 1..Len(arg.cited_cases) :
                       InText(arg.cited_cases[j].case_name)
                /\ \A j \in 1..Len(arg.cited_statutes) :
                       InText(arg.cited_statutes[j])

\* C1 amended: after post-processing, every string left in cited_statutes is
\* a case-insensitive substring of the motion text, and every case name
\* left in cited_cases is a case-insensitive substring of the motion text or
\* equals, letter case ignored, the case name of a case record returned by
\* the extractor (the two party names joined by " v. ").
C1_CitationsTraceToText ==
    pc = "done" =>
        \A i \in 1..Len(processed_result.all_arguments) :
            LET arg == processed_result.all_arguments[i]
            IN  /\ \A j \in 1..Len(arg.cited_cases) :
                       \/ InText(arg.cited_cases[j].case_name)
                       \/ ExtractedCaseName(arg.cited_cases[j].case_name)
                /\ \A j \in 1..Len(arg.cited_statutes) :
                       InText(arg.cited_statutes[j])

\* a finished run in which one argument lost a cited case and kept one, and
\* one argument lost a cited statute and kept one
C1_Witness ==
    /\ pc = "done"
    /\ \E i \in 1..Len(processed_result.all_arguments) :
           /\ processed_result.all_arguments[i].cited_cases # <<>>
           /\ Len(processed_result.all_arguments[i].cited_cases)
                  < Len(motion_result.all_arguments[i].cited_cases)
    /\ \E i \in 1..Len(processed_result.all_arguments) :
           /\ processed_result.all_arguments[i].cited_statutes # <<>>
           /\ Len(processed_result.all_arguments[i].cited_statutes)
                  < Len(motion_result.all_arguments[i].cited_statutes)

\* ---------------------------------------------------------------- C2
\* C2 as stated: after post-processing, categories_used names a causation,
\* a liability and a procedural-defenses category, and all_arguments holds
\* an argument (the model's or a placeholder) of each.
RequiredCategoryWords == {<<"c","a","u","s","a","t","i","o","n">>, <<"l","i","a","b","i","l","i","t","y">>, <<"p","r","o","c","e","d","u","r","a","l">>}
C2_RequiredCategoriesPresent ==
    pc = "done" =>
        \A w \in RequiredCategoryWords :
            /\ \E i \in 1..Len(processed_result.categories_used) :
                   Contains(processed_result.categories_used[i], w)
            /\ \E i \in 1..Len(processed_result.all_arguments) :
                   Contains(processed_result.all_arguments[i].category, w)

\* ---------------------------------------------------------------- C3
\* C3: total_arguments_found is the length of the flat argument list in
\* the output of _ensure_comprehensive_structure (0 when the object holds
\* no all_arguments) and in the output of the post-processor.
C3_TotalIsLength ==
    /\ Normalized =>
           /\ Has(result_data, K_total_arguments_found)
           /\ ~Has(result_data, K_all_arguments) =>
                  Get(result_data, K_total_arguments_found) = JNum(0)
           /\ (/\ Has(result_data, K_all_arguments)
               /\ Get(result_data, K_all_arguments).k = "list") =>
                  Get(result_data, K_total_arguments_found) = JNum(Len(Ensured))
    /\ pc = "done" =>
           processed_result.total_arguments_found
               = Len(processed_result.all_arguments)

\* a finished run whose completion carried a counter that is not the
\* length of its argument list
C3_Witness ==
    /\ pc = "done"
    /\ Has(completion.value, K_total_arguments_found)
    /\ Get(completion.value, K_total_arguments_found)
           # JNum(Len(Received))
    /\ Len(processed_result.all_arguments) > 0

\* ---------------------------------------------------------------- C4
\* C4 as stated: the notable_omissions list of a result returned by the
\* post-processor has at most 5 entries.
C4_AtMostFiveOmissions ==
    pc = "done" => Len(processed_result.notable_omissions) <= 5

\* C4 amended: the post-processor leaves the omissions of the validated
\* result in place and appends at most 5 notes to them.
C4_AtMostFiveAppended ==
    pc = "done" =>
        LET before == motion_result.notable_omissions
            after == processed_result.notable_omissions
        IN  /\ Len(after) >= Len(before)
            /\ Len(after) <= Len(before) + 5
            /\ SubSeq(after, 1, Len(before)) = before

\* a finished run in which more than five patterns were found missing and
\* five notes were appended to an omission the model had listed
C4_Witness ==
    /\ pc = "done"
    /\ motion_result.notable_omissions # <<>>
    /\ Len(processed_result.notable_omissions)
           = Len(motion_result.notable_omissions) + 5
    /\ Len(MissedIn(motion_text,
                    Join([i \in 1..Len(motion_result.all_arguments) |->
                        Lower(motion_result.all_arguments[i].argument_summary)])))
           > 5

\* ---------------------------------------------------------------- C5
\* C5: _ensure_comprehensive_structure applied to an object it returned
\* returns, and returns an equal object.
C5_Idempotent ==
    Normalized => EnsureComprehensiveStructure(result_data) = Returned(result_data)

\* normalization has just returned an object that differs from the one it
\* received: an identifier was assigned and the grouping was built
C5_Witness ==
    /\ pc = "validate"
    /\ ReceivedList
    /\ \E i \in 1..Len(Received) : ~Has(Received[i], K_argument_id)
    /\ ~Has(completion.value, K_arguments_by_category)
    /\ Get(result_data, K_arguments_by_category).p # <<>>

\* ---------------------------------------------------------------- C6
\* C6 as stated: _ensure_comprehensive_structure never raises, whatever
\* parsed JSON object it is given.
C6_NormalizerNeverRaises == ~StageRan("normalize_raised")

\* ---------------------------------------------------------------- C7
\* C7: after normalization an entry that arrived without argument_id has
\* the identifier arg_NNN, NNN its 1-based position in the received array
\* in three digits, and an entry that arrived with one keeps it.
PositionalId(position) == <<"a","r","g","_","0","0">> \o <<DigitChars[position + 1]>>
C7_PositionalIdentifiers ==
    (Normalized /\ ReceivedList) =>
        /\ Len(Ensured) = Len(Received)
        /\ \A i \in 1..Len(Received) :
               Get(Ensured[i], K_argument_id) =
                   IF Has(Received[i], K_argument_id)
                   THEN Get(Received[i], K_argument_id)
                   ELSE JStr(PositionalId(i))

\* the first two entries arrived without an identifier and are now arg_001
\* and arg_002
C7_Witness ==
    /\ Normalized
    /\ ReceivedList
    /\ Len(Received) >= 2
    /\ ~Has(Received[1], K_argument_id)
    /\ ~Has(Received[2], K_argument_id)
    /\ Get(Ensured[1], K_argument_id) = JStr(<<"a","r","g","_","0","0","1">>)
    /\ Get(Ensured[2], K_argument_id) = JStr(<<"a","r","g","_","0","0","2">>)

\* ---------------------------------------------------------------- C8
\* C8 as stated: when the identifiers the model supplied are pairwise
\* distinct and some entries lack one, the identifiers of the flat list
\* are pairwise distinct after normalization.
C8_IdentifiersDistinct ==
    (/\ Normalized
     /\ ReceivedList
     /\ \E i \in 1..Len(Received) : ~Has(Received[i], K_argument_id)
     /\ \A i, j \in 1..Len(Received) :
            (/\ i # j
             /\ Has(Received[i], K_argument_id)
             /\ Has(Received[j], K_argument_id)) =>
                Get(Received[i], K_argument_id) # Get(Received[j], K_argument_id))
    => \A i, j \in 1..Len(Ensured) :
           i # j => Get(Ensured[i], K_argument_id) # Get(Ensured[j], K_argument_id)

\* ---------------------------------------------------------------- C9
\* C9: the completion service is called at most once in a run; when the
\* call fails, the completion is not JSON, or validation fails, the run has
\* ended with its analysis-failed error, after exactly one call, and no
\* result object is returned.
C9_NoRetry ==
    /\ api_calls <= 1
    /\ StageRan("provider_error") =>
           pc = "failed" /\ error = ErrGeneric
               /\ api_calls = 1 /\ processed_result = None
    /\ StageRan("json_decode_error") =>
           pc = "failed" /\ error = ErrInvalidFormat
               /\ api_calls = 1 /\ processed_result = None
    /\ StageRan("validation_error") =>
           pc = "failed" /\ error = ErrValidation
               /\ api_calls = 1 /\ processed_result = None

\* a run that ended because the one call to the completion service failed
C9_Witness ==
    /\ pc = "failed"
    /\ completion = [kind |-> "provider_error"]
    /\ api_calls = 1
    /\ stages[Len(stages)] = "provider_error"

\* ---------------------------------------------------------------- C10
\* C10: the post-processor runs only directly after the normalized object
\* was parsed into the typed result, and a run in which validation failed
\* has ended with an error, without a post-processing step and without a
\* result.
C10_ValidationIsHardStop ==
    /\ \A i \in 1..Len(stages) :
           stages[i] = "post_process" => i > 1 /\ stages[i - 1] = "validate"
    /\ pc \in {"post_process", "done"} =>
           StageRan("validate") /\ motion_result # None
    /\ StageRan("validation_error") =>
           /\ pc = "failed"
           /\ error # ""
           /\ ~StageRan("post_process")
           /\ motion_result = None
           /\ processed_result = None

\* a run that ended at validation, after the object was normalized
C10_Witness ==
    /\ pc = "failed"
    /\ error = ErrValidation
    /\ stages[Len(stages)] = "validation_error"
    /\ Normalized
    /\ motion_result = None

\* ---------------------------------------------------------------- C11
\* C11: with initialize and analyze_motion calls interleaved at the
\* suspension points, the client handle is built at most once while the
\* flag stays set (exactly once when it is set, never when it is clear), a
\* set flag goes with a handle, and no analysis reaches its completion call
\* with the handle missing.
C11_SingleFlightInitialization ==
    /\ creations <= 1
    /\ creations = (IF initialized THEN 1 ELSE 0)
    /\ initialized <=> client = "handle"
    /\ ~StageRan("call_raised")
    /\ peer_pc # "call_raised"

\* two analyses are suspended at their completion calls at the same time,
\* and one handle was built for them
C11_Witness ==
    /\ pc = "awaiting"
    /\ peer_pc = "awaiting"
    /\ initialized
    /\ creations = 1

\* ---------------------------------------------------------------- C12
\* the rule of the claim: the lower-cased name occurs in the lower-cased
\* motion text or is a lower-cased case name of the extractor
RuleKeeps(citation) ==
    InText(citation.case_name) \/ ExtractedCaseName(citation.case_name)
RuleDrops(citation) == ~RuleKeeps(citation)
\* the names of the citations the rule drops, from argument i on
RECURSIVE RejectedFrom(_)
RejectedFrom(i) ==
    IF i > Len(motion_result.all_arguments) THEN <<>>
    ELSE LET dropped == SelectSeq(motion_result.all_arguments[i].cited_cases,
                                  RuleDrops)
         IN  [j \in 1..Len(dropped) |-> dropped[j].case_name]
                 \o RejectedFrom(i + 1)

\* C12: after post-processing the cited_cases of every argument is the
\* subsequence of the list before it made of exactly the citations the rule
\* keeps, and a warning was logged for every other citation, and for no
\* other.
C12_ExactCaseFilter ==
    pc = "done" =>
        /\ Len(processed_result.all_arguments)
               = Len(motion_result.all_arguments)
        /\ \A i \in 1..Len(motion_result.all_arguments) :
               processed_result.all_arguments[i].cited_cases
                   = SelectSeq(motion_result.all_arguments[i].cited_cases,
                               RuleKeeps)
        /\ warnings = RejectedFrom(1)

\* the scenario of the claim: the text holds "Smith v. Jones, 123 F.3d 456
\* (9th Cir. 2020)"; of the cases an argument cited, Smith v. Jones is left
\* and Doe v. Roe was removed with a warning
C12_Witness ==
    /\ pc = "done"
    /\ Contains(motion_text, <<"S","m","i","t","h"," ","v","."," ","J","o","n","e","s",","," ","1","2","3"," ","F",".","3","d"," ","4","5","6"," ","(","9","t","h"," ","C","i","r","."," ","2","0","2","0",")">>)
    /\ \E i \in 1..Len(motion_result.all_arguments) :
           /\ \E j \in 1..Len(motion_result.all_arguments[i].cited_cases) :
                  motion_result.all_arguments[i].cited_cases[j].case_name
                      = <<"D","o","e"," ","v","."," ","R","o","e">>
           /\ processed_result.all_arguments[i].cited_cases
                  = <<[case_name |-> <<"S","m","i","t","h"," ","v","."," ","J","o","n","e","s">>]>>
    /\ \E k \in 1..Len(warnings) : warnings[k] = <<"D","o","e"," ","v","."," ","R","o","e">>

\* ---------------------------------------------------------------- C13
\* C13 as stated: _extract_legal_citations never aborts; for every motion
\* text it returns a list of at most 50 records.
C13_ExtractorNeverAborts ==
    /\ ~StageRan("extract_raised")
    /\ StageRan("extract") => Len(extracted_citations) <= 50

\* ---------------------------------------------------------------- C14
\* C14 as stated: after post-processing, categories_used holds exactly the
\* categories declared by the arguments of all_arguments.
C14_CategoriesFromFlatList ==
    pc = "done" =>
        {processed_result.categories_used[i] :
            i \in 1..Len(processed_result.categories_used)}
        = {processed_result.all_arguments[i].category :
            i \in 1..Len(processed_result.all_arguments)}

\* ---------------------------------------------------------------- C15
\* pattern i is found in the motion text and in no single argument summary
FoundAndNotEchoed(i) ==
    /\ Search(patterns_to_check[i], motion_text)
    /\ \A a \in 1..Len(motion_result.all_arguments) :
           ~Search(patterns_to_check[i],
                   motion_result.all_arguments[a].argument_summary)
\* the notes the post-processor appended
AppendedNotes ==
    SubSeq(processed_result.notable_omissions,
           Len(motion_result.notable_omissions) + 1,
           Len(processed_result.notable_omissions))

\* C15 as stated: the note of a pattern is appended if and only if the
\* pattern matches the motion text, matches no single argument summary,
\* and is among the first five such patterns in list order.
C15_OmissionNoteIff ==
    pc = "done" =>
        \A i \in 1..Len(patterns_to_check) :
            (\E k \in 1..Len(AppendedNotes) :
                 AppendedNotes[k] = OmissionNote(patterns_to_check[i].description))
            <=> (/\ FoundAndNotEchoed(i)
                 /\ Cardinality({j \in 1..i : FoundAndNotEchoed(j)}) <= 5)

\* ---------------------------------------------------------------- C16
\* the rule for statutes: the lower-cased string occurs in the lower-cased
\* motion text or in the lower-cased full citation of a statute record of
\* the extractor
RuleKeepsStatute(statute) ==
    \/ InText(statute)
    \/ \E k \in 1..Len(extracted_citations) :
           /\ extracted_citations[k].type = "statute"
           /\ Contains(Lower(extracted_citations[k].full_citation),
                       Lower(statute))

\* C16 as stated: after post-processing no argument under
\* arguments_by_category carries a cited case or statute the rule
\* rejects, and its citation lists equal those of the argument of
\* all_arguments with the same identifier.
C16_GroupingReconciled ==
    pc = "done" =>
        \A g \in 1..Len(processed_result.arguments_by_category) :
            LET members == processed_result.arguments_by_category[g][2]
            IN  \A m \in 1..Len(members) :
                    /\ \A j \in 1..Len(members[m].cited_cases) :
                           RuleKeeps(members[m].cited_cases[j])
                    /\ \A j \in 1..Len(members[m].cited_statutes) :
                           RuleKeepsStatute(members[m].cited_statutes[j])
                    /\ \A i \in 1..Len(processed_result.all_arguments) :
                           processed_result.all_arguments[i].argument_id
                               = members[m].argument_id
                           => /\ processed_result.all_arguments[i].cited_cases
                                     = members[m].cited_cases
                              /\ processed_result.all_arguments[i].cited_statutes
                                     = members[m].cited_statutes
====
